---------------------------- MODULE Spec2Model ----------------------------
(***************************************************************************)
(* A model of the FastMCP task manager server (src/main.py): the in-memory *)
(* TaskStorage and the facade tools that wrap it in envelopes.             *)
(*                                                                         *)
(* Python values are tagged records, so that a field may hold values of    *)
(* different Python types, as an attribute of a pydantic model without     *)
(* assignment validation can:                                              *)
(*   None              [none |-> TRUE]                                     *)
(*   a str             [str |-> "..."]                                     *)
(*   a TaskStatus      [status |-> "todo"]                                 *)
(*   a Priority        [priority |-> "medium"]                             *)
(*   a datetime        [t |-> instant, aware |-> has a tzinfo]             *)
(*   a list of str     [list |-> <<...>>]                                  *)
(* Instants are integers relative to the start of the process: the clock   *)
(* reads 0 at construction; a date in the past is negative.                *)
(***************************************************************************)
EXTENDS Integers, Sequences, FiniteSets, TLC

VARIABLES
    tasks,      \* TaskStorage.tasks: the dict, as the sequence of its values in insertion order (the key of a value is its id)
    next_id,    \* TaskStorage.next_id
    now,        \* the reading of the wall clock, datetime.now()
    ret,        \* what the last facade call returned
    calls,      \* the number of create_task and update_task calls made so far
    issued,     \* history: the ids returned by successful creates, in order
    deleted,    \* history: the ids removed by delete_task
    creates     \* history: the number of create_task calls made so far

vars == <<tasks, next_id, now, ret, calls, issued, deleted, creates>>

-----------------------------------------------------------------------------
(* Bounds of the model *)

\* create_task is called at most MaxCreates times.
MaxCreates == 2
\* The clock is read at most at instant MaxClock.
MaxClock == 1
\* At most MaxCalls calls that carry a request (create_task, update_task) are made.
MaxCalls == 3

-----------------------------------------------------------------------------
(* Python values *)

None == [none |-> TRUE]
Str(s) == [str |-> s]
Status(v) == [status |-> v]
Prio(v) == [priority |-> v]
DateTime(t, aware) == [t |-> t, aware |-> aware]
List(s) == [list |-> s]
\* A field of an UpdateTaskRequest that the caller did not set.
Unset == [unset |-> TRUE]

IsStr(v) == DOMAIN v = {"str"}
IsList(v) == DOMAIN v = {"list"}
IsDateTime(v) == DOMAIN v = {"t", "aware"}

\* Python's truth value of an object.
Truthy(v) ==
    IF v = None THEN FALSE
    ELSE IF IsStr(v) THEN v.str # ""
    ELSE IF IsList(v) THEN v.list # <<>>
    ELSE TRUE

TODO == Status("todo")
IN_PROGRESS == Status("in_progress")
COMPLETED == Status("completed")
CANCELLED == Status("cancelled")
TaskStatus == {TODO, IN_PROGRESS, COMPLETED, CANCELLED}

LOW == Prio("low")
MEDIUM == Prio("medium")
HIGH == Prio("high")
URGENT == Prio("urgent")
Priority == {LOW, MEDIUM, HIGH, URGENT}


-----------------------------------------------------------------------------
(* Conversions *)

Digits == <<"0", "1", "2", "3", "4", "5", "6", "7", "8", "9">>

\* str(n) of a non-negative int.
RECURSIVE str(_)
str(n) == IF n < 10 THEN Digits[n + 1] ELSE str(n \div 10) \o Digits[(n % 10) + 1]

\* value.replace('Z', '+00:00'), on the strings the model feeds it: the only
\* one of them that holds a 'Z' is "2099-01-01T00:00:00Z".
replace_Z(s) ==
    CASE s = "2099-01-01T00:00:00Z" -> "2099-01-01T00:00:00+00:00"
      [] OTHER -> s

\* datetime.fromisoformat(s): the datetime, or the ValueError it raises.
\* "2020-01-01T00:00:00" lies before the start of the process and
\* "2099-01-01T00:00:00" after every reading of the clock; a string with a UTC
\* offset gives an aware datetime, one without a naive datetime.
fromisoformat(s) ==
    CASE s = "2020-01-01T00:00:00" -> [ok |-> TRUE, value |-> DateTime(-1, FALSE)]
      [] s = "2099-01-01T00:00:00" -> [ok |-> TRUE, value |-> DateTime(100, FALSE)]
      [] s = "2099-01-01T00:00:00+00:00" -> [ok |-> TRUE, value |-> DateTime(100, TRUE)]
      [] OTHER -> [ok |-> FALSE, error |-> [ValueError |-> "Invalid isoformat string", arg |-> s]]

\* datetime.isoformat(), as pydantic's model_dump(mode='json') renders a datetime.
isoformat(d) == [isostr |-> <<d.t, d.aware>>]

\* model_dump(mode='json') of one field's value: an enum member becomes its
\* value, a datetime its ISO string; None, str and list stay.
json_value(v) ==
    IF DOMAIN v = {"status"} THEN Str(v.status)
    ELSE IF DOMAIN v = {"priority"} THEN Str(v.priority)
    ELSE IF IsDateTime(v) THEN isoformat(v)
    ELSE v

TaskFields == {"title", "description", "status", "priority", "created_at",
               "due_date", "completed_at", "tags"}

\* Task.model_dump(mode='json')
model_dump_json(task) ==
    [f \in DOMAIN task |-> IF f = "id" THEN task.id ELSE json_value(task[f])]

-----------------------------------------------------------------------------
(* The dict TaskStorage.tasks, as the sequence of its values in insertion order *)

Keys(ts) == {ts[i].id : i \in 1..Len(ts)}

\* self.tasks.get(task_id)
dict_get(ts, task_id) ==
    IF task_id \in Keys(ts)
    THEN ts[CHOOSE i \in 1..Len(ts) : ts[i].id = task_id]
    ELSE None

\* self.tasks[task_id] = task: a new key goes last, a known key keeps its place.
dict_set(ts, task_id, task) ==
    IF task_id \in Keys(ts)
    THEN [i \in 1..Len(ts) |-> IF ts[i].id = task_id THEN task ELSE ts[i]]
    ELSE Append(ts, task)

\* Mutant of dict_del: the oldest entry is removed, whatever the key.
dict_del_oldest(ts, task_id) == Tail(ts)

\* del self.tasks[task_id]
dict_del(ts, task_id) == SelectSeq(ts, LAMBDA t : t.id # task_id)

-----------------------------------------------------------------------------
(* TaskStorage: each method as an operator from the store (ts: the dict,     *)
(* nid: next_id), the clock and the arguments to what the method leaves      *)
(* behind: the store after it, and its return value or the exception raised. *)

\* The due_date of a request or patch value, parsed as create_task and
\* update_task parse it.
parse_due_date(value) == fromisoformat(replace_Z(value.str))

\* Task(id=..., title=..., ...): status and completed_at take their defaults.
NewTask(task_id, request, due_date, clock) ==
    [id |-> task_id,
     title |-> request.title,
     description |-> request.description,
     status |-> TODO,
     priority |-> request.priority,
     created_at |-> DateTime(clock, FALSE),
     due_date |-> due_date,
     completed_at |-> None,
     tags |-> request.tags]

\* Mutant of TaskStorage_create_task: the id is taken from the number of stored
\* tasks instead of from the counter.
TaskStorage_create_task_by_len(ts, nid, clock, request) ==
    LET task_id == str(Len(ts) + 1)
        parsed == IF Truthy(request.due_date)
                  THEN parse_due_date(request.due_date)
                  ELSE [ok |-> TRUE, value |-> None]
    IN  IF ~parsed.ok
        THEN [raised |-> TRUE, error |-> parsed.error, tasks |-> ts, next_id |-> nid + 1]
        ELSE LET task == NewTask(task_id, request, parsed.value, clock)
             IN  [raised |-> FALSE, task |-> task,
                  tasks |-> dict_set(ts, task_id, task), next_id |-> nid + 1]

\* Mutant of TaskStorage_create_task: the task is stored before its due date
\* is parsed.
TaskStorage_create_task_store_first(ts, nid, clock, request) ==
    LET task_id == str(nid)
        parsed == IF Truthy(request.due_date)
                  THEN parse_due_date(request.due_date)
                  ELSE [ok |-> TRUE, value |-> None]
    IN  IF ~parsed.ok
        THEN [raised |-> TRUE, error |-> parsed.error,
              tasks |-> dict_set(ts, task_id, NewTask(task_id, request, None, clock)),
              next_id |-> nid + 1]
        ELSE LET task == NewTask(task_id, request, parsed.value, clock)
             IN  [raised |-> FALSE, task |-> task,
                  tasks |-> dict_set(ts, task_id, task), next_id |-> nid + 1]

\* Mutant of TaskStorage_create_task: the counter advances when the task is
\* stored, so not on a malformed due date.
TaskStorage_create_task_count_stored(ts, nid, clock, request) ==
    LET task_id == str(nid)
        parsed == IF Truthy(request.due_date)
                  THEN parse_due_date(request.due_date)
                  ELSE [ok |-> TRUE, value |-> None]
    IN  IF ~parsed.ok
        THEN [raised |-> TRUE, error |-> parsed.error, tasks |-> ts, next_id |-> nid]
        ELSE LET task == NewTask(task_id, request, parsed.value, clock)
             IN  [raised |-> FALSE, task |-> task,
                  tasks |-> dict_set(ts, task_id, task), next_id |-> nid + 1]

\* TaskStorage.create_task: the counter advances before the due date is parsed,
\* the task is stored after it.
TaskStorage_create_task(ts, nid, clock, request) ==
    LET task_id == str(nid)
        parsed == IF Truthy(request.due_date)
                  THEN parse_due_date(request.due_date)
                  ELSE [ok |-> TRUE, value |-> None]
    IN  IF ~parsed.ok
        THEN [raised |-> TRUE, error |-> parsed.error, tasks |-> ts, next_id |-> nid + 1]
        ELSE LET task == NewTask(task_id, request, parsed.value, clock)
             IN  [raised |-> FALSE, task |-> task,
                  tasks |-> dict_set(ts, task_id, task), next_id |-> nid + 1]

\* TaskStorage.get_task
TaskStorage_get_task(ts, task_id) == dict_get(ts, task_id)

\* The fields of an UpdateTaskRequest, in the order the class declares them.
PatchFields == <<"title", "description", "status", "priority", "due_date", "tags">>

\* updates.model_dump(exclude_unset=True).items(): the fields the caller set, in order.
model_dump_exclude_unset(updates) ==
    SelectSeq(PatchFields, LAMBDA f : updates[f] # Unset)

\* d[k] = v on a dict held as a function.
put(d, k, v) == [x \in DOMAIN d \cup {k} |-> IF x = k THEN v ELSE d[x]]

\* Mutant of enters_completed: the current status is not looked at.
enters_completed_again(task, field, value) ==
    field = "status" /\ value = COMPLETED

\* The status branch of update_task's first loop: the patch moves the task
\* into completed.
enters_completed(task, field, value) ==
    field = "status" /\ value = COMPLETED /\ task.status # COMPLETED

\* Mutant of stamp_completed_at: the stamp is left out.
stamp_completed_at_skipped(update_data, clock) == update_data

\* update_data['completed_at'] = datetime.now()
stamp_completed_at(update_data, clock) ==
    put(update_data, "completed_at", DateTime(clock, FALSE))

\* The first loop of update_task from its i-th item on: update_data, or the
\* ValueError that fromisoformat raises on the way.
RECURSIVE build_update_data(_, _, _, _, _, _)
build_update_data(task, updates, items, i, clock, update_data) ==
    IF i > Len(items) THEN [raised |-> FALSE, update_data |-> update_data]
    ELSE LET field == items[i]
             value == updates[field]
         IN  IF field = "due_date" /\ Truthy(value)
             THEN LET parsed == parse_due_date(value)
                  IN  IF ~parsed.ok
                      THEN [raised |-> TRUE, error |-> parsed.error, update_data |-> update_data]
                      ELSE build_update_data(task, updates, items, i + 1, clock,
                                             put(update_data, field, parsed.value))
             ELSE IF enters_completed(task, field, value)
             THEN build_update_data(task, updates, items, i + 1, clock,
                      stamp_completed_at(put(update_data, field, value), clock))
             ELSE build_update_data(task, updates, items, i + 1, clock,
                                    put(update_data, field, value))

\* Mutant of setattr_all: a full replace, the fields the patch leaves unset are
\* cleared.
setattr_all_replace(task, update_data) ==
    [f \in DOMAIN task |->
        IF f \in DOMAIN update_data THEN update_data[f]
        ELSE IF f \in {"title", "description", "due_date"} THEN None
        ELSE task[f]]

\* Mutant of setattr_all: completed_at is cleared when the status is set to a
\* value other than completed.
setattr_all_clearing(task, update_data) ==
    [f \in DOMAIN task |->
        IF f \in DOMAIN update_data THEN update_data[f]
        ELSE IF /\ f = "completed_at"
                /\ "status" \in DOMAIN update_data
                /\ update_data["status"] # COMPLETED
        THEN None
        ELSE task[f]]

\* The second loop of update_task: setattr(task, field, value) for each item.
setattr_all(task, update_data) ==
    [f \in DOMAIN task |-> IF f \in DOMAIN update_data THEN update_data[f] ELSE task[f]]

\* Mutant of TaskStorage_update_task: each field is assigned as soon as its
\* value is known, so a ValueError leaves the earlier fields assigned.
TaskStorage_update_task_eager(ts, clock, task_id, updates) ==
    LET task == dict_get(ts, task_id)
    IN  IF task = None THEN [raised |-> FALSE, task |-> None, tasks |-> ts]
        ELSE LET built == build_update_data(task, updates, model_dump_exclude_unset(updates),
                                            1, clock, <<>>)
                 updated == setattr_all(task, built.update_data)
             IN  IF built.raised
                 THEN [raised |-> TRUE, error |-> built.error,
                       tasks |-> dict_set(ts, task_id, updated)]
                 ELSE [raised |-> FALSE, task |-> updated,
                       tasks |-> dict_set(ts, task_id, updated)]

\* TaskStorage.update_task: nothing is assigned before update_data is complete.
TaskStorage_update_task(ts, clock, task_id, updates) ==
    LET task == dict_get(ts, task_id)
    IN  IF task = None THEN [raised |-> FALSE, task |-> None, tasks |-> ts]
        ELSE LET built == build_update_data(task, updates, model_dump_exclude_unset(updates),
                                            1, clock, <<>>)
             IN  IF built.raised
                 THEN [raised |-> TRUE, error |-> built.error, tasks |-> ts]
                 ELSE LET updated == setattr_all(task, built.update_data)
                      IN  [raised |-> FALSE, task |-> updated,
                           tasks |-> dict_set(ts, task_id, updated)]

\* Mutant of TaskStorage_delete_task: the key is popped with a default, and
\* True is returned whether or not it was there.
TaskStorage_delete_task_pop(ts, task_id) ==
    [result |-> TRUE, tasks |-> dict_del(ts, task_id)]

\* TaskStorage.delete_task
TaskStorage_delete_task(ts, task_id) ==
    IF task_id \in Keys(ts)
    THEN [result |-> TRUE, tasks |-> dict_del(ts, task_id)]
    ELSE [result |-> FALSE, tasks |-> ts]

\* What create_task, get_task and update_task return, and what the list of
\* list_tasks holds, is the Task instance that the dict holds, not a copy of
\* it. The dict binds a key once, to the instance built with that id, and
\* update_task assigns to the fields of that instance. So the fields of an
\* instance that was returned earlier, read when the store has become ts, are
\* the fields of the task that ts holds under its id; an instance that was
\* deleted from the dict keeps the fields it had.
read_instance(ts, task) ==
    IF task.id \in Keys(ts) THEN dict_get(ts, task.id) ELSE task

\* Mutant of priority_order: the ranks run the other way.
priority_order_reversed(p) ==
    CASE p = URGENT -> 3
      [] p = HIGH -> 2
      [] p = MEDIUM -> 1
      [] p = LOW -> 0

\* priority_order of list_tasks; a priority that is no key of it raises KeyError.
priority_order(p) ==
    CASE p = URGENT -> 0
      [] p = HIGH -> 1
      [] p = MEDIUM -> 2
      [] p = LOW -> 3

\* The sort key of list_tasks: (priority_order[t.priority], t.created_at),
\* compared as Python compares tuples.
key_less(a, b) ==
    \/ priority_order(a.priority) < priority_order(b.priority)
    \/ /\ priority_order(a.priority) = priority_order(b.priority)
       /\ a.created_at.t < b.created_at.t

\* list.sort(key=...): a stable sort; x goes behind every element that is not
\* greater than it.
RECURSIVE sort_insert(_, _)
sort_insert(sorted, x) ==
    IF sorted = <<>> THEN <<x>>
    ELSE IF key_less(x, Head(sorted)) THEN <<x>> \o sorted
    ELSE <<Head(sorted)>> \o sort_insert(Tail(sorted), x)

RECURSIVE sort_by_key(_)
sort_by_key(seq) ==
    IF seq = <<>> THEN <<>>
    ELSE sort_insert(sort_by_key(SubSeq(seq, 1, Len(seq) - 1)), seq[Len(seq)])

\* tag in t.tags, for a list t.tags
tag_in(tag, tags) == \E i \in 1..Len(tags.list) : tags.list[i] = tag.str

\* TaskStorage.list_tasks: the filtered, sorted list, or the exception raised:
\* TypeError by `tag in t.tags` on tags that are None, KeyError by
\* priority_order[t.priority] on a priority that is None.
TaskStorage_list_tasks(ts, status, tag) ==
    LET by_status == IF Truthy(status) THEN SelectSeq(ts, LAMBDA t : t.status = status) ELSE ts
        no_tags == \E i \in 1..Len(by_status) : ~IsList(by_status[i].tags)
        by_tag == IF Truthy(tag) THEN SelectSeq(by_status, LAMBDA t : tag_in(tag, t.tags))
                  ELSE by_status
    IN  IF Truthy(tag) /\ no_tags
        THEN [raised |-> TRUE, error |-> [TypeError |-> "argument of type 'NoneType' is not iterable"]]
        ELSE IF \E i \in 1..Len(by_tag) : by_tag[i].priority \notin Priority
        THEN [raised |-> TRUE, error |-> [KeyError |-> "None"]]
        ELSE [raised |-> FALSE, result |-> sort_by_key(by_tag)]

\* by[key] = by.get(key, 0) + 1
count_up(by, key) == put(by, key, (IF key \in DOMAIN by THEN by[key] ELSE 0) + 1)

\* The loop of get_stats from the i-th task on. task.status.value and
\* task.priority.value raise AttributeError on None; task.due_date < now raises
\* TypeError when due_date is aware, now being naive.
RECURSIVE stats_loop(_, _, _, _, _, _)
stats_loop(ts, i, clock, by_status, by_priority, overdue) ==
    IF i > Len(ts)
    THEN [raised |-> FALSE,
          result |-> [total |-> Len(ts), by_status |-> by_status,
                      by_priority |-> by_priority, overdue |-> overdue]]
    ELSE LET task == ts[i]
         IN  IF task.status \notin TaskStatus \/ task.priority \notin Priority
             THEN [raised |-> TRUE,
                   error |-> [AttributeError |-> "'NoneType' object has no attribute 'value'"]]
             ELSE IF Truthy(task.due_date) /\ task.due_date.aware
             THEN [raised |-> TRUE,
                   error |-> [TypeError |-> "can't compare offset-naive and offset-aware datetimes"]]
             ELSE stats_loop(ts, i + 1, clock,
                             count_up(by_status, task.status.status),
                             count_up(by_priority, task.priority.priority),
                             IF /\ Truthy(task.due_date)
                                /\ task.due_date.t < clock
                                /\ task.status # COMPLETED
                             THEN overdue + 1 ELSE overdue)

\* TaskStorage.get_stats
TaskStorage_get_stats(ts, clock) ==
    IF Len(ts) = 0
    THEN [raised |-> FALSE, result |-> [total |-> 0, by_status |-> <<>>, by_priority |-> <<>>]]
    ELSE stats_loop(ts, 1, clock, <<>>, <<>>, 0)


-----------------------------------------------------------------------------
(* The inputs of the facade *)

\* due_date strings: empty, malformed, a naive past date, a naive future date,
\* a future date in UTC.
DueStrings == {"", "not-a-date", "2020-01-01T00:00:00", "2099-01-01T00:00:00",
               "2099-01-01T00:00:00Z"}

\* CreateTaskRequest(title="a"): every optional field at its default.
DefaultRequest ==
    [title |-> Str("a"), description |-> None, priority |-> MEDIUM,
     due_date |-> None, tags |-> List(<<>>)]

\* The values a request sets a field to.
RequestValues ==
    [priority |-> {URGENT, LOW},
     due_date |-> {Str(d) : d \in DueStrings},
     tags |-> {List(<<"x">>)}]

\* CreateTaskRequest values (pydantic has validated the types): the default
\* request, and the requests that set one field to another value.
CreateRequests ==
    {DefaultRequest} \cup
    {[DefaultRequest EXCEPT ![f] = v] : <<f, v>> \in
        UNION {{<<g, w>> : w \in RequestValues[g]} : g \in DOMAIN RequestValues}}

\* UpdateTaskRequest(): no field set.
EmptyPatch ==
    [title |-> Unset, description |-> Unset, status |-> Unset,
     priority |-> Unset, due_date |-> Unset, tags |-> Unset]

\* The values a patch sets a field to: None, or a value of the field's type.
PatchValues ==
    [title |-> {None, Str("b")},
     description |-> {None, Str("d")},
     status |-> {None} \cup TaskStatus,
     priority |-> {None, URGENT, LOW},
     due_date |-> {None} \cup {Str(d) : d \in DueStrings},
     tags |-> {None, List(<<"x">>)}]

FieldValues == UNION {{<<f, v>> : v \in PatchValues[f]} : f \in DOMAIN PatchValues}

FieldsSet(updates) == {f \in DOMAIN updates : updates[f] # Unset}

\* UpdateTaskRequest values: the empty patch, the patches that set one field,
\* and the patches that set one field and a malformed due_date.
Patches ==
    {EmptyPatch} \cup
    {[EmptyPatch EXCEPT ![fv[1]] = fv[2]] : fv \in FieldValues} \cup
    {[EmptyPatch EXCEPT ![fv[1]] = fv[2], !["due_date"] = Str("not-a-date")] :
        fv \in {x \in FieldValues : x[1] # "due_date"}}

\* UpdateTaskRequest(status=TaskStatus.COMPLETED), the patch of complete_task
CompletedPatch ==
    [title |-> Unset, description |-> Unset, status |-> COMPLETED,
     priority |-> Unset, due_date |-> Unset, tags |-> Unset]

\* Task ids a caller may name: those create_task can hand out, and one more.
TaskIds == {str(n) : n \in 1..(MaxCreates + 1)}

\* The status argument of list_tasks: absent, empty, a status value, another string.
StatusArgs == {None, Str(""), Str("bogus"), Str("completed")}
\* The tag argument of list_tasks.
TagArgs == {None, Str(""), Str("x")}

-----------------------------------------------------------------------------
(* The facade: each tool as an operator from the store, the clock and the    *)
(* arguments to the store it leaves behind and the envelope it returns.      *)

\* str(e) of an exception
str_exc(e) == [str_of |-> e]

\* f"Task with ID {task_id} not found"
not_found(task_id) ==
    [success |-> FALSE,
     error |-> [fmt |-> "Task with ID {task_id} not found", task_id |-> task_id]]

\* The create_task tool
create_task(ts, nid, clock, request) ==
    LET r == TaskStorage_create_task(ts, nid, clock, request)
    IN  [tasks |-> r.tasks,
         next_id |-> r.next_id,
         out |-> IF r.raised
                 THEN [success |-> FALSE, error |-> str_exc(r.error)]
                 ELSE [success |-> TRUE,
                       task |-> model_dump_json(r.task),
                       message |-> [fmt |-> "Task '{task.title}' created successfully with ID {task.id}",
                                    title |-> r.task.title, id |-> r.task.id]]]

\* The get_task tool
get_task(ts, task_id) ==
    LET task == TaskStorage_get_task(ts, task_id)
    IN  IF task # None
        THEN [success |-> TRUE, task |-> model_dump_json(task)]
        ELSE not_found(task_id)

\* The update_task tool
update_task(ts, clock, task_id, updates) ==
    LET r == TaskStorage_update_task(ts, clock, task_id, updates)
    IN  [tasks |-> r.tasks,
         out |-> IF r.raised
                 THEN [success |-> FALSE, error |-> str_exc(r.error)]
                 ELSE IF r.task # None
                 THEN [success |-> TRUE,
                       task |-> model_dump_json(r.task),
                       message |-> [fmt |-> "Task {task_id} updated successfully",
                                    task_id |-> task_id]]
                 ELSE not_found(task_id)]

\* The delete_task tool
delete_task(ts, task_id) ==
    LET r == TaskStorage_delete_task(ts, task_id)
    IN  [tasks |-> r.tasks,
         out |-> IF r.result
                 THEN [success |-> TRUE,
                       message |-> [fmt |-> "Task {task_id} deleted successfully",
                                    task_id |-> task_id]]
                 ELSE not_found(task_id)]

\* TaskStatus(status): the member with that value, or ValueError.
TaskStatus_of(status) ==
    IF Status(status.str) \in TaskStatus
    THEN [ok |-> TRUE, value |-> Status(status.str)]
    ELSE [ok |-> FALSE]

\* An exception that no except clause of the tool catches leaves the tool.
unhandled(e) == [fault |-> e]

\* Mutant of list_tasks: only ValueError is caught.
list_tasks_value_error_only(ts, status, tag) ==
    LET parsed == IF Truthy(status) THEN TaskStatus_of(status)
                  ELSE [ok |-> TRUE, value |-> None]
        r == TaskStorage_list_tasks(ts, parsed.value, tag)
    IN  IF ~parsed.ok
        THEN [success |-> FALSE,
              error |-> [fmt |-> "Invalid status: {status}", status |-> status]]
        ELSE IF r.raised
        THEN unhandled(r.error)
        ELSE [success |-> TRUE,
              tasks |-> [i \in 1..Len(r.result) |-> model_dump_json(r.result[i])],
              count |-> Len(r.result)]

\* The list_tasks tool
list_tasks(ts, status, tag) ==
    LET parsed == IF Truthy(status) THEN TaskStatus_of(status)
                  ELSE [ok |-> TRUE, value |-> None]
        r == TaskStorage_list_tasks(ts, parsed.value, tag)
    IN  IF ~parsed.ok
        THEN [success |-> FALSE,
              error |-> [fmt |-> "Invalid status: {status}", status |-> status]]
        ELSE IF r.raised
        THEN [success |-> FALSE, error |-> str_exc(r.error)]
        ELSE [success |-> TRUE,
              tasks |-> [i \in 1..Len(r.result) |-> model_dump_json(r.result[i])],
              count |-> Len(r.result)]

\* The complete_task tool
complete_task(ts, clock, task_id) == update_task(ts, clock, task_id, CompletedPatch)

\* The get_task_stats tool
get_task_stats(ts, clock) ==
    LET r == TaskStorage_get_stats(ts, clock)
    IN  IF r.raised
        THEN [success |-> FALSE, error |-> str_exc(r.error)]
        ELSE [success |-> TRUE, stats |-> r.result]

\* Mutant of health_check: the tasks that are not completed are counted.
health_check_open_tasks(ts, clock) ==
    [status |-> "healthy", server |-> "FastMCP Task Manager",
     timestamp |-> isoformat(DateTime(clock, FALSE)),
     task_count |-> Len(SelectSeq(ts, LAMBDA t : t.status # COMPLETED))]

\* The health_check tool
health_check(ts, clock) ==
    [status |-> "healthy", server |-> "FastMCP Task Manager",
     timestamp |-> isoformat(DateTime(clock, FALSE)), task_count |-> Len(ts)]

-----------------------------------------------------------------------------
(* The resources: each textual view as an operator from the store to the     *)
(* text it returns, held as the record of the values the text is made of, or *)
(* to the exception it raises; no resource catches an exception.             *)

\* datetime.strftime('%Y-%m-%d %H:%M:%S'): the instant, without the offset.
strftime(d) == [strftime |-> d.t]

\* One line of the detail view, present when the value is truthy.
detail_line(value, line) == IF Truthy(value) THEN line ELSE None

\* The task://{task_id} resource. task.status.value and task.priority.value
\* raise AttributeError on None.
get_task_resource(ts, task_id) ==
    LET task == TaskStorage_get_task(ts, task_id)
    IN  IF task = None
        THEN [raised |-> FALSE,
              text |-> [fmt |-> "Task {task_id} not found", task_id |-> task_id]]
        ELSE IF task.status \notin TaskStatus \/ task.priority \notin Priority
        THEN [raised |-> TRUE,
              error |-> [AttributeError |-> "'NoneType' object has no attribute 'value'"]]
        ELSE [raised |-> FALSE,
              text |-> [fmt |-> "# Task: {task.title}",
                        title |-> task.title,
                        status |-> task.status.status,
                        priority |-> task.priority.priority,
                        created |-> strftime(task.created_at),
                        description |-> detail_line(task.description, task.description),
                        due_date |-> detail_line(task.due_date,
                                         IF IsDateTime(task.due_date)
                                         THEN strftime(task.due_date) ELSE None),
                        completed |-> detail_line(task.completed_at,
                                          IF IsDateTime(task.completed_at)
                                          THEN strftime(task.completed_at) ELSE None),
                        tags |-> detail_line(task.tags, task.tags)]]

\* The summary view shows the first SummaryLength tasks of the list.
SummaryLength == 10

\* One line of the summary view.
summary_line(task) ==
    [status |-> task.status.status, priority |-> task.priority.priority,
     title |-> task.title, id |-> task.id]

\* The tasks://all resource: list_tasks() and get_stats() are both called
\* before the list is looked at, and what they raise is raised by the view.
get_all_tasks_resource(ts, clock) ==
    LET listed == TaskStorage_list_tasks(ts, None, None)
        stats == TaskStorage_get_stats(ts, clock)
    IN  IF listed.raised THEN [raised |-> TRUE, error |-> listed.error]
        ELSE IF stats.raised THEN [raised |-> TRUE, error |-> stats.error]
        ELSE IF listed.result = <<>>
        THEN [raised |-> FALSE,
              text |-> [fmt |-> "No tasks found. Create your first task to get started!"]]
        ELSE LET shown == IF Len(listed.result) > SummaryLength
                          THEN SubSeq(listed.result, 1, SummaryLength)
                          ELSE listed.result
             IN  [raised |-> FALSE,
                  text |-> [fmt |-> "# Task Summary",
                            total |-> stats.result.total,
                            overdue |-> IF "overdue" \in DOMAIN stats.result
                                        THEN stats.result.overdue ELSE 0,
                            by_status |-> stats.result.by_status,
                            tasks |-> [i \in 1..Len(shown) |-> summary_line(shown[i])],
                            more |-> IF Len(listed.result) > SummaryLength
                                     THEN Len(listed.result) - SummaryLength ELSE 0]]

-----------------------------------------------------------------------------
(* The server: a caller makes one call at a time and takes its response.     *)
(* ret holds the call (the tool and the arguments that name its target) and  *)
(* what it returned.                                                         *)

\* No response is pending: the caller has taken the last one.
NoResponse == [idle |-> TRUE]

Init ==
    /\ tasks = <<>>
    /\ next_id = 1
    /\ now = 0
    /\ ret = NoResponse
    /\ calls = 0
    /\ issued = <<>>
    /\ deleted = {}
    /\ creates = 0

CallCreateTask(request) ==
    /\ ret = NoResponse
    /\ calls < MaxCalls
    /\ next_id <= MaxCreates
    /\ LET r == create_task(tasks, next_id, now, request)
       IN  /\ tasks' = r.tasks
           /\ next_id' = r.next_id
           /\ ret' = [op |-> "create_task", out |-> r.out]
           /\ issued' = IF r.out.success THEN Append(issued, r.out.task.id) ELSE issued
    /\ calls' = calls + 1
    /\ creates' = creates + 1
    /\ UNCHANGED <<now, deleted>>

CallGetTask(task_id) ==
    /\ ret = NoResponse
    /\ ret' = [op |-> "get_task", task_id |-> task_id, out |-> get_task(tasks, task_id)]
    /\ UNCHANGED <<tasks, next_id, now, calls, issued, deleted, creates>>

CallUpdateTask(task_id, updates) ==
    /\ ret = NoResponse
    /\ calls < MaxCalls
    /\ LET r == update_task(tasks, now, task_id, updates)
       IN  /\ tasks' = r.tasks
           /\ ret' = [op |-> "update_task", task_id |-> task_id, out |-> r.out]
    /\ calls' = calls + 1
    /\ UNCHANGED <<next_id, now, issued, deleted, creates>>

CallCompleteTask(task_id) ==
    /\ ret = NoResponse
    /\ LET r == complete_task(tasks, now, task_id)
       IN  /\ tasks' = r.tasks
           /\ ret' = [op |-> "complete_task", task_id |-> task_id, out |-> r.out]
    /\ UNCHANGED <<next_id, now, calls, issued, deleted, creates>>

CallDeleteTask(task_id) ==
    /\ ret = NoResponse
    /\ LET r == delete_task(tasks, task_id)
       IN  /\ tasks' = r.tasks
           /\ ret' = [op |-> "delete_task", task_id |-> task_id, out |-> r.out]
           /\ deleted' = IF r.out.success THEN deleted \cup {task_id} ELSE deleted
    /\ UNCHANGED <<next_id, now, calls, issued, creates>>

CallListTasks(status, tag) ==
    /\ ret = NoResponse
    /\ ret' = [op |-> "list_tasks", status |-> status, tag |-> tag,
               out |-> list_tasks(tasks, status, tag)]
    /\ UNCHANGED <<tasks, next_id, now, calls, issued, deleted, creates>>

CallGetTaskStats ==
    /\ ret = NoResponse
    /\ ret' = [op |-> "get_task_stats", out |-> get_task_stats(tasks, now)]
    /\ UNCHANGED <<tasks, next_id, now, calls, issued, deleted, creates>>

CallHealthCheck ==
    /\ ret = NoResponse
    /\ ret' = [op |-> "health_check", out |-> health_check(tasks, now)]
    /\ UNCHANGED <<tasks, next_id, now, calls, issued, deleted, creates>>

\* A read of the task://{task_id} resource: the text, or the exception that
\* leaves the function.
CallGetTaskResource(task_id) ==
    /\ ret = NoResponse
    /\ ret' = [op |-> "get_task_resource", task_id |-> task_id,
               out |-> get_task_resource(tasks, task_id)]
    /\ UNCHANGED <<tasks, next_id, now, calls, issued, deleted, creates>>

\* A read of the tasks://all resource.
CallGetAllTasksResource ==
    /\ ret = NoResponse
    /\ ret' = [op |-> "get_all_tasks_resource", out |-> get_all_tasks_resource(tasks, now)]
    /\ UNCHANGED <<tasks, next_id, now, calls, issued, deleted, creates>>

\* The caller takes the response.
Return ==
    /\ ret # NoResponse
    /\ ret' = NoResponse
    /\ UNCHANGED <<tasks, next_id, now, calls, issued, deleted, creates>>

\* Time passes between two calls.
Tick ==
    /\ ret = NoResponse
    /\ now < MaxClock
    /\ now' = now + 1
    /\ UNCHANGED <<tasks, next_id, ret, calls, issued, deleted, creates>>

Next ==
    \/ \E request \in CreateRequests : CallCreateTask(request)
    \/ \E task_id \in TaskIds : CallGetTask(task_id)
    \/ \E task_id \in TaskIds, updates \in Patches : CallUpdateTask(task_id, updates)
    \/ \E task_id \in TaskIds : CallCompleteTask(task_id)
    \/ \E task_id \in TaskIds : CallDeleteTask(task_id)
    \/ \E status \in StatusArgs, tag \in TagArgs : CallListTasks(status, tag)
    \/ CallGetTaskStats
    \/ CallHealthCheck
    \/ \E task_id \in TaskIds : CallGetTaskResource(task_id)
    \/ CallGetAllTasksResource
    \/ Return
    \/ Tick

Spec == Init /\ [][Next]_vars

-----------------------------------------------------------------------------
(* Properties *)

\* The last call was a call of the tool op.
Returned(op) == ret # NoResponse /\ ret.op = op

\* A call can be made: no response is pending.
Idle == ret = NoResponse

\* The number an id string renders.
IdNum(s) == CHOOSE n \in 0..(MaxCreates + 2) : str(n) = s

\* The stored task with this id.
Stored(task_id) == dict_get(tasks, task_id)

\* C1: the ids returned by successful creates are strictly increasing in
\* creation order, hence pairwise distinct, whatever was deleted in between;
\* an id of a deleted task is not handed out again, and every stored task
\* carries an id that a create returned.
C1_IdsIncreasingNeverReused ==
    /\ \A i, j \in 1..Len(issued) : i < j => IdNum(issued[i]) < IdNum(issued[j])
    /\ Keys(tasks) \subseteq {issued[i] : i \in 1..Len(issued)}
    /\ (Returned("create_task") /\ ret.out.success) =>
           /\ ret.out.task.id = issued[Len(issued)]
           /\ ret.out.task.id \notin deleted

\* C1 witness: a create has succeeded after a task was created and deleted.
C1_Witness ==
    /\ Returned("create_task") /\ ret.out.success
    /\ Len(issued) = 2
    /\ issued[1] \in deleted

\* C2 as claimed: for every stored task, completed_at is set if and only if
\* the status is completed. It is stated of the tasks whose status is one of
\* the four status values, so that no violation rests on a status of None.
C2_CompletedAtIffCompleted ==
    \A i \in 1..Len(tasks) :
        tasks[i].status \in TaskStatus =>
            ((tasks[i].completed_at # None) <=> (tasks[i].status = COMPLETED))

\* C2 as amended: every stored task whose status is completed has completed_at
\* set (a task that has left completed keeps its completed_at).
C2_CompletedHasCompletedAt ==
    \A i \in 1..Len(tasks) :
        tasks[i].status = COMPLETED => tasks[i].completed_at # None

\* C2 witness: a stored task is completed, and stamped.
C2_Witness ==
    \E i \in 1..Len(tasks) :
        tasks[i].status = COMPLETED /\ tasks[i].completed_at # None

\* C3 as claimed: completed_at is stamped on the first update that moves the
\* status into completed, and once it is set no later step gives it another
\* value. It is stated of the steps between two of the four status values, so
\* that no violation rests on a status of None.
C3_StampedExactlyOnce ==
    [][\A task_id \in Keys(tasks) \cap Keys(tasks') :
          LET old == dict_get(tasks, task_id)
              new == dict_get(tasks', task_id)
          IN  (old.status \in TaskStatus /\ new.status \in TaskStatus) =>
              /\ (old.status # COMPLETED /\ new.status = COMPLETED /\ old.completed_at = None)
                     => new.completed_at = DateTime(now, FALSE)
              /\ old.completed_at # None => new.completed_at = old.completed_at]_vars

\* C3 as amended: a step stamps completed_at with the current time exactly when
\* it moves the status of the task from a value other than completed into
\* completed, the first time and every later time; every other step leaves
\* completed_at as it was.
C3_StampedOnEveryEntry ==
    [][\A task_id \in Keys(tasks) \cap Keys(tasks') :
          LET old == dict_get(tasks, task_id)
              new == dict_get(tasks', task_id)
          IN  IF old.status # COMPLETED /\ new.status = COMPLETED
              THEN new.completed_at = DateTime(now, FALSE)
              ELSE new.completed_at = old.completed_at]_vars

\* C3 witness: an update has just moved a task created at instant 0 into
\* completed at instant 1, and stamped it so.
C3_Witness ==
    /\ (Returned("update_task") \/ Returned("complete_task")) /\ ret.out.success
    /\ now = 1
    /\ LET task == Stored(ret.task_id)
       IN  /\ task.created_at = DateTime(0, FALSE)
           /\ task.status = COMPLETED
           /\ task.completed_at = DateTime(1, FALSE)


\* C4: for a stored task whose status is completed, update_task with a patch
\* that does not set status, update_task with a patch that sets status to
\* completed, and complete_task all leave completed_at as it was.
C4_CompletedAtKeptWhileCompleted ==
    Idle =>
        \A task_id \in Keys(tasks) :
            LET old == Stored(task_id)
            IN  old.status = COMPLETED =>
                /\ \A updates \in Patches :
                       updates.status \in {Unset, COMPLETED} =>
                           dict_get(update_task(tasks, now, task_id, updates).tasks, task_id).completed_at
                               = old.completed_at
                /\ dict_get(complete_task(tasks, now, task_id).tasks, task_id).completed_at
                       = old.completed_at

\* C4 witness: complete_task has returned at instant 1 for a task that was
\* completed at instant 0, and the task still carries the stamp of instant 0.
C4_Witness ==
    /\ Returned("complete_task") /\ ret.out.success
    /\ now = 1
    /\ Stored(ret.task_id).status = COMPLETED
    /\ Stored(ret.task_id).completed_at = DateTime(0, FALSE)

\* The patch moves the task into completed.
MovesIntoCompleted(old, updates) == updates.status = COMPLETED /\ old.status # COMPLETED

\* C5: update on a stored task changes only the fields the patch sets, and
\* completed_at when the patch moves the status into completed: every other
\* field of the task, the id, every other task and their order are as before;
\* the empty patch changes nothing at all; and a step of update_task or
\* complete_task leaves the id counter as it was.
C5_UpdateIsSparse ==
    /\ [](Idle =>
            \A task_id \in Keys(tasks) : \A updates \in Patches :
                LET r == TaskStorage_update_task(tasks, now, task_id, updates)
                    old == Stored(task_id)
                    new == dict_get(r.tasks, task_id)
                IN  /\ Len(r.tasks) = Len(tasks)
                    /\ \A i \in 1..Len(tasks) :
                           /\ r.tasks[i].id = tasks[i].id
                           /\ tasks[i].id # task_id => r.tasks[i] = tasks[i]
                    /\ \A f \in TaskFields :
                           (/\ f \notin FieldsSet(updates)
                            /\ ~(f = "completed_at" /\ MovesIntoCompleted(old, updates)))
                               => new[f] = old[f]
                    /\ updates = EmptyPatch => (~r.raised /\ r.tasks = tasks))
    /\ [][(Returned("update_task") \/ Returned("complete_task"))' => next_id' = next_id]_vars

\* C5 witness: update_task has succeeded on one of two stored tasks, and has
\* given it a title that the other task does not have.
C5_Witness ==
    /\ Returned("update_task") /\ ret.out.success
    /\ Len(tasks) = 2
    /\ Stored(ret.task_id).title = Str("b")
    /\ \E i \in 1..2 : tasks[i].id # ret.task_id /\ tasks[i].title = Str("a")

\* C6: update_task on a stored task with a patch whose due_date is malformed
\* returns an error envelope and leaves the whole store, so every field of the
\* task, as it was, whatever other field the patch sets.
C6_MalformedDueDateUpdatesNothing ==
    Idle =>
        \A task_id \in Keys(tasks) : \A updates \in Patches :
            updates.due_date = Str("not-a-date") =>
                LET r == update_task(tasks, now, task_id, updates)
                IN  /\ r.out.success = FALSE
                    /\ "error" \in DOMAIN r.out
                    /\ r.tasks = tasks

\* C6 witness: update_task has returned the error of the malformed due date
\* for a stored task.
C6_Witness ==
    /\ Returned("update_task")
    /\ ret.task_id \in Keys(tasks)
    /\ ret.out.success = FALSE
    /\ ret.out.error = [str_of |-> [ValueError |-> "Invalid isoformat string", arg |-> "not-a-date"]]

\* C7: create_task with a malformed due_date returns an error envelope, and the
\* stored tasks are as before.
C7_MalformedDueDateCreatesNothing ==
    Idle =>
        \A request \in CreateRequests :
            request.due_date = Str("not-a-date") =>
                LET r == create_task(tasks, next_id, now, request)
                IN  /\ r.out.success = FALSE
                    /\ "error" \in DOMAIN r.out
                    /\ r.tasks = tasks

\* C7 witness: create_task has returned the error of the malformed due date
\* while one task is stored.
C7_Witness ==
    /\ Returned("create_task")
    /\ ret.out.success = FALSE
    /\ ret.out.error = [str_of |-> [ValueError |-> "Invalid isoformat string", arg |-> "not-a-date"]]
    /\ Len(tasks) = 1

\* The envelope of a task that is not stored.
NotFoundEnvelope(task_id) ==
    [success |-> FALSE,
     error |-> [fmt |-> "Task with ID {task_id} not found", task_id |-> task_id]]

\* C8: delete of a stored id returns true and removes that task and no other;
\* delete of an id that is not stored returns false and changes nothing; and
\* an id that was deleted is never stored again, so that get answers not-found
\* for it ever after, whatever was called in between.
C8_DeleteRemovesForGood ==
    /\ Idle =>
           \A task_id \in TaskIds :
               LET r == TaskStorage_delete_task(tasks, task_id)
               IN  IF task_id \in Keys(tasks)
                   THEN /\ r.result = TRUE
                        /\ r.tasks = SelectSeq(tasks, LAMBDA t : t.id # task_id)
                        /\ TaskStorage_get_task(r.tasks, task_id) = None
                   ELSE /\ r.result = FALSE
                        /\ r.tasks = tasks
    /\ \A task_id \in deleted :
           /\ task_id \notin Keys(tasks)
           /\ TaskStorage_get_task(tasks, task_id) = None
           /\ get_task(tasks, task_id) = NotFoundEnvelope(task_id)
    /\ (Returned("get_task") /\ ret.task_id \in deleted) => ret.out = NotFoundEnvelope(ret.task_id)

\* C8 witness: get has answered not-found for a deleted id, after a later
\* create has stored another task.
C8_Witness ==
    /\ Returned("get_task")
    /\ ret.task_id \in deleted
    /\ ret.out = NotFoundEnvelope(ret.task_id)
    /\ \E i \in 1..Len(tasks) : IdNum(tasks[i].id) > IdNum(ret.task_id)

\* The tools that look a task up by its id.
LookupTools == {"get_task", "update_task", "complete_task", "delete_task"}

\* C9: get_task, update_task, complete_task and delete_task, called with an id
\* that is not stored, return the not-found envelope of that id, and leave the
\* stored tasks and the id counter as they were.
C9_UnknownIdNotFound ==
    /\ [](Idle =>
            \A task_id \in TaskIds \ Keys(tasks) :
                /\ get_task(tasks, task_id) = NotFoundEnvelope(task_id)
                /\ \A updates \in Patches :
                       update_task(tasks, now, task_id, updates)
                           = [tasks |-> tasks, out |-> NotFoundEnvelope(task_id)]
                /\ complete_task(tasks, now, task_id)
                       = [tasks |-> tasks, out |-> NotFoundEnvelope(task_id)]
                /\ delete_task(tasks, task_id)
                       = [tasks |-> tasks, out |-> NotFoundEnvelope(task_id)])
    /\ [][(/\ ret' # NoResponse
           /\ ret'.op \in LookupTools
           /\ ret'.task_id \notin Keys(tasks))
              => (/\ ret'.out = NotFoundEnvelope(ret'.task_id)
                  /\ tasks' = tasks
                  /\ next_id' = next_id)]_vars

\* C9 witness: update_task has answered not-found for an id that is not stored,
\* while a task is stored.
C9_Witness ==
    /\ Returned("update_task")
    /\ ret.task_id \notin Keys(tasks)
    /\ ret.out = NotFoundEnvelope(ret.task_id)
    /\ Len(tasks) = 1
    /\ next_id = 2

\* A task satisfies the filters of list that are given; a filter is given
\* when it is neither None nor empty.
Matches(t, status, tag) ==
    /\ Truthy(status) => t.status = status
    /\ Truthy(tag) => (IsList(t.tags) /\ \E k \in 1..Len(t.tags.list) : t.tags.list[k] = tag.str)

\* C10 as claimed: for every status filter and tag filter, list returns the
\* stored tasks that satisfy every filter that is given, each of them once and
\* no other.
C10_ListReturnsTheMatchingTasks ==
    Idle =>
        \A status \in TaskStatus \cup {None} : \A tag \in TagArgs :
            LET r == TaskStorage_list_tasks(tasks, status, tag)
                matching == {i \in 1..Len(tasks) : Matches(tasks[i], status, tag)}
            IN  /\ ~r.raised
                /\ Len(r.result) = Cardinality(matching)
                /\ {r.result[k] : k \in 1..Len(r.result)} = {tasks[i] : i \in matching}

\* Every stored task has a priority and a list of tags.
ListableStore ==
    \A i \in 1..Len(tasks) : tasks[i].priority \in Priority /\ IsList(tasks[i].tags)

\* C10 on the stores that hold no task whose priority or tags are None: there
\* list returns the matching tasks.
C10_OnListableStores ==
    (Idle /\ ListableStore) =>
        \A status \in TaskStatus \cup {None} : \A tag \in TagArgs :
            LET r == TaskStorage_list_tasks(tasks, status, tag)
                matching == {i \in 1..Len(tasks) : Matches(tasks[i], status, tag)}
            IN  /\ ~r.raised
                /\ Len(r.result) = Cardinality(matching)
                /\ {r.result[k] : k \in 1..Len(r.result)} = {tasks[i] : i \in matching}

\* The priority rank of the ordering of list.
Rank(p) == CASE p = URGENT -> 0 [] p = HIGH -> 1 [] p = MEDIUM -> 2 [] p = LOW -> 3

\* The place of a task in the store, in insertion order.
Place(task_id) == CHOOSE i \in 1..Len(tasks) : tasks[i].id = task_id

\* a may stand before b in the list: by priority rank, then by created_at,
\* then by insertion order.
InListOrder(a, b) ==
    \/ Rank(a.priority) < Rank(b.priority)
    \/ /\ Rank(a.priority) = Rank(b.priority)
       /\ \/ a.created_at.t < b.created_at.t
          \/ /\ a.created_at.t = b.created_at.t
             /\ Place(a.id) < Place(b.id)

\* C11: whatever creates, deletes and updates came before, and whatever the
\* filters, the sequence that list returns is ordered by priority rank
\* ascending (urgent 0, high 1, medium 2, low 3), then by created_at ascending,
\* then by insertion order.
C11_ListIsOrdered ==
    Idle =>
        \A status \in TaskStatus \cup {None} : \A tag \in TagArgs :
            LET r == TaskStorage_list_tasks(tasks, status, tag)
            IN  ~r.raised =>
                    \A k, l \in 1..Len(r.result) :
                        k < l => InListOrder(r.result[k], r.result[l])

\* C11 witness: list has returned two tasks, and the task created second, at
\* a later instant, stands first.
C11_Witness ==
    /\ Returned("list_tasks") /\ ret.out.success
    /\ ret.out.count = 2
    /\ ret.out.tasks[1].id = "2"
    /\ ret.out.tasks[2].id = "1"
    /\ Stored("1").created_at.t < Stored("2").created_at.t

\* The stored tasks that are overdue at the instant clock: the due date is
\* set, lies strictly before clock, and the status is not completed.
Overdue(clock) ==
    {i \in 1..Len(tasks) :
        /\ IsDateTime(tasks[i].due_date)
        /\ tasks[i].due_date.t < clock
        /\ tasks[i].status # COMPLETED}

\* The summary counts the store: total is the number of stored tasks, by_status
\* and by_priority map the values that occur to the number of tasks that carry
\* them, overdue is the number of overdue tasks; of the empty store, total is 0
\* and both mappings are empty.
CountsTheStore(stats, clock) ==
    /\ stats.total = Len(tasks)
    /\ DOMAIN stats.by_status = {tasks[i].status.status : i \in 1..Len(tasks)}
    /\ \A v \in DOMAIN stats.by_status :
           stats.by_status[v] = Cardinality({i \in 1..Len(tasks) : tasks[i].status.status = v})
    /\ DOMAIN stats.by_priority = {tasks[i].priority.priority : i \in 1..Len(tasks)}
    /\ \A v \in DOMAIN stats.by_priority :
           stats.by_priority[v] = Cardinality({i \in 1..Len(tasks) : tasks[i].priority.priority = v})
    /\ Len(tasks) > 0 => stats.overdue = Cardinality(Overdue(clock))

\* C12 as claimed: in every state of the store, stats() returns the summary
\* that counts the store.
C12_StatsCountTheStore ==
    Idle =>
        LET r == TaskStorage_get_stats(tasks, now)
        IN  ~r.raised /\ CountsTheStore(r.result, now)

\* Every stored task has a status and a priority, and no due date with a UTC
\* offset.
CountableStore ==
    \A i \in 1..Len(tasks) :
        /\ tasks[i].status \in TaskStatus
        /\ tasks[i].priority \in Priority
        /\ IsDateTime(tasks[i].due_date) => ~tasks[i].due_date.aware

\* C12 on the stores on which get_stats does not raise: there stats() returns
\* the summary that counts the store.
C12_OnCountableStores ==
    (Idle /\ CountableStore) =>
        LET r == TaskStorage_get_stats(tasks, now)
        IN  ~r.raised /\ CountsTheStore(r.result, now)

\* The envelope of the tools: success, and an error when success is false.
IsEnvelope(out) ==
    /\ "fault" \notin DOMAIN out
    /\ "success" \in DOMAIN out
    /\ out.success \in BOOLEAN
    /\ out.success = FALSE => "error" \in DOMAIN out

\* The payload of health_check.
IsHealthPayload(out) ==
    DOMAIN out = {"status", "server", "timestamp", "task_count"}

\* C13: in every state, for every request, patch, id and filter, each tool
\* returns an envelope (health_check its payload): whatever the store raises
\* comes back as an error envelope, and every response given was one.
C13_ToolsReturnEnvelopes ==
    /\ Idle =>
           /\ \A request \in CreateRequests :
                  IsEnvelope(create_task(tasks, next_id, now, request).out)
           /\ \A task_id \in TaskIds :
                  /\ IsEnvelope(get_task(tasks, task_id))
                  /\ \A updates \in Patches :
                         IsEnvelope(update_task(tasks, now, task_id, updates).out)
                  /\ IsEnvelope(delete_task(tasks, task_id).out)
                  /\ IsEnvelope(complete_task(tasks, now, task_id).out)
           /\ \A status \in StatusArgs : \A tag \in TagArgs :
                  IsEnvelope(list_tasks(tasks, status, tag))
           /\ IsEnvelope(get_task_stats(tasks, now))
           /\ IsHealthPayload(health_check(tasks, now))
    /\ (ret # NoResponse /\ ret.op \notin {"get_task_resource", "get_all_tasks_resource"}) =>
           IF ret.op = "health_check" THEN IsHealthPayload(ret.out) ELSE IsEnvelope(ret.out)

\* C13 witness: the store has raised KeyError inside list_tasks, and the tool
\* has returned it as an error envelope.
C13_Witness ==
    /\ Returned("list_tasks")
    /\ ret.out = [success |-> FALSE, error |-> str_exc([KeyError |-> "None"])]

\* The envelope of a status that is not a status value.
InvalidStatusEnvelope(status) ==
    [success |-> FALSE, error |-> [fmt |-> "Invalid status: {status}", status |-> status]]

\* The string is one of the four status values.
KnownStatus(status) == Status(status.str) \in TaskStatus

\* C14 as claimed: list_tasks with a status string that is none of the four
\* status values returns the invalid-status envelope; with a status value, or
\* without a status, it returns a success envelope whose count is the length
\* of its tasks.
C14_ListTasksStatus ==
    Idle =>
        \A status \in StatusArgs : \A tag \in TagArgs :
            LET out == list_tasks(tasks, status, tag)
            IN  IF status # None /\ ~KnownStatus(status)
                THEN out = InvalidStatusEnvelope(status)
                ELSE /\ out.success = TRUE
                     /\ out.count = Len(out.tasks)

\* C14 on the stores that hold no task whose priority or tags are None, an
\* empty status string being no status: a string that is not empty and no
\* status value gets the invalid-status envelope, every other call a success
\* envelope whose count is the length of its tasks.
C14_OnListableStores ==
    (Idle /\ ListableStore) =>
        \A status \in StatusArgs : \A tag \in TagArgs :
            LET out == list_tasks(tasks, status, tag)
            IN  IF Truthy(status) /\ ~KnownStatus(status)
                THEN out = InvalidStatusEnvelope(status)
                ELSE /\ out.success = TRUE
                     /\ out.count = Len(out.tasks)

\* C15 as claimed: in every state of the store get_task_stats returns a
\* success envelope that carries the stats. It is stated of the stores whose
\* tasks all have a status and a priority, so that no violation rests on a
\* status or priority of None.
C15_StatsNeverFail ==
    (Idle /\ \A i \in 1..Len(tasks) :
                tasks[i].status \in TaskStatus /\ tasks[i].priority \in Priority) =>
        LET out == get_task_stats(tasks, now)
        IN  out.success = TRUE /\ "stats" \in DOMAIN out

\* C15 on the stores that get_stats can count: there get_task_stats returns a
\* success envelope with the stats.
C15_OnCountableStores ==
    (Idle /\ CountableStore) =>
        LET out == get_task_stats(tasks, now)
        IN  out.success = TRUE /\ "stats" \in DOMAIN out

\* C16 as claimed: a task that the store has returned is a snapshot. The task
\* returned by get, read again after any update or delete of the store, has
\* the fields it had when it was returned; so has the task returned by
\* update, and every task of the list returned by list.
C16_ReturnedTasksAreSnapshots ==
    Idle =>
        \A task_id \in Keys(tasks) : \A updates \in Patches :
            LET got == TaskStorage_get_task(tasks, task_id)
                listed == TaskStorage_list_tasks(tasks, None, None)
                updated == TaskStorage_update_task(tasks, now, task_id, updates)
                after_update == updated.tasks
                after_delete == TaskStorage_delete_task(tasks, task_id).tasks
            IN  /\ read_instance(after_update, got) = got
                /\ read_instance(after_delete, got) = got
                /\ ~listed.raised =>
                       \A k \in 1..Len(listed.result) :
                           read_instance(after_update, listed.result[k]) = listed.result[k]
                /\ ~updated.raised =>
                       \A again \in Patches :
                           read_instance(
                               TaskStorage_update_task(after_update, now, task_id, again).tasks,
                               updated.task) = updated.task

\* C17: the id counter is 1 at the start and goes up by exactly 1 with every
\* create call, one that fails on a malformed due date included: it is always
\* 1 plus the number of create calls made, and the id that a successful create
\* returns renders 1 plus the number of create calls made before it.
C17_CounterCountsCreateCalls ==
    /\ next_id = creates + 1
    /\ (Returned("create_task") /\ ret.out.success) => ret.out.task.id = str(creates)
    /\ Idle =>
           \A request \in CreateRequests :
               LET r == create_task(tasks, next_id, now, request)
               IN  /\ r.next_id = next_id + 1
                   /\ r.out.success => r.out.task.id = str(creates + 1)

\* C17 witness: the first create call failed and the second succeeded: the only
\* id handed out is "2", a gap at "1".
C17_Witness ==
    /\ Returned("create_task") /\ ret.out.success
    /\ creates = 2
    /\ issued = <<"2">>
    /\ ret.out.task.id = "2"

\* A task is well-typed: its status is one of the four status values, its
\* priority one of the four priorities, its due date None or a datetime.
WellTyped(task) ==
    /\ task.status \in TaskStatus
    /\ task.priority \in Priority
    /\ (task.due_date = None \/ IsDateTime(task.due_date))

\* C18 as claimed: in every state, every stored task is well-typed, whatever
\* patches were accepted.
C18_StoredTasksWellTyped ==
    \A i \in 1..Len(tasks) : WellTyped(tasks[i])

\* C18 of create: every task that create_task stores is well-typed.
C18_CreatedTasksWellTyped ==
    Idle =>
        \A request \in CreateRequests :
            LET r == TaskStorage_create_task(tasks, next_id, now, request)
            IN  ~r.raised => WellTyped(r.task)

\* C19: no step clears completed_at: a task that is stored before and after a
\* step, and has completed_at set before it, has it set after it, whatever the
\* step does to the status.
C19_CompletedAtNeverCleared ==
    [][\A task_id \in Keys(tasks) \cap Keys(tasks') :
          dict_get(tasks, task_id).completed_at # None
              => dict_get(tasks', task_id).completed_at # None]_vars

\* C19 witness: update_task has moved a completed task to another of the four
\* status values, and the task still has completed_at set.
C19_Witness ==
    /\ Returned("update_task") /\ ret.out.success
    /\ Stored(ret.task_id).status \in TaskStatus \ {COMPLETED}
    /\ Stored(ret.task_id).completed_at # None

\* The read operations: four tools and the two resource views.
ReadOperations ==
    {"get_task", "list_tasks", "get_task_stats", "health_check",
     "get_task_resource", "get_all_tasks_resource"}

\* C20: a step of get_task, list_tasks, get_task_stats, health_check or of one
\* of the two resource views leaves the stored tasks, each with every field and
\* in their order, and the id counter as they were, whether it returns or
\* raises; and the task_count of health_check is the number of stored tasks.
C20_ReadsChangeNothing ==
    /\ [][(ret' # NoResponse /\ ret'.op \in ReadOperations)
              => (tasks' = tasks /\ next_id' = next_id)]_vars
    /\ [](Idle => health_check(tasks, now).task_count = Len(tasks))
    /\ [](Returned("health_check") => ret.out.task_count = Len(tasks))

\* C20 witness: the summary view has listed two tasks, the task stored second
\* first, and the store still holds them in insertion order.
C20_Witness ==
    /\ Returned("get_all_tasks_resource")
    /\ ~ret.out.raised
    /\ Len(tasks) = 2
    /\ ret.out.text.tasks[1].id = "2"
    /\ tasks[1].id = "1"
    /\ tasks[2].id = "2"

=============================================================================
